---------------------------- MODULE Spec2Model ----------------------------
(***************************************************************************)
(* Model of code/notebooks/build_catalog_guide.ipynb: the path parser      *)
(* parse_ae_ren_data and the two catalog builds (Method 1, Method 2) that  *)
(* call it.                                                                *)
(*                                                                         *)
(* A Python str is a sequence of tokens.  A token is a piece of text that  *)
(* neither "/" nor any of the texts the code searches for can cut in two:  *)
(* "/" itself, "s3:", "wfclimres", ".zmetadata" and the names between the  *)
(* separators.  str.split(sep) is computed on these sequences as Python    *)
(* computes it on characters: left to right, non-overlapping occurrences.  *)
(***************************************************************************)
EXTENDS Integers, Sequences, FiniteSets, Bags, TLC

\* ---------------------------------------------------------------- bounds
\* Largest number of paths one build is given.
MaxAssets == 2
\* Largest number of "/"-separated segments after the root in a generated path.
MaxSegs == 9
\* Largest number of invocations of the parser that run at the same time.
MaxCalls == 2

\* ------------------------------------------------------- program constants
INVALID_ASSET == "INVALID_ASSET"
TRACEBACK == "TRACEBACK"

\* The text "s3://wfclimres/" the parser splits on.
Root == <<"s3:", "/", "/", "wfclimres", "/">>
\* The text "/".
Slash == <<"/">>
\* The text ".zmetadata".
ZMetadata == <<".zmetadata">>
\* The protocol "s3://" that Method 1 puts back in front of a glob result.
Protocol == <<"s3:", "/", "/">>
\* The number of names the tuple assignment of the parser unpacks into.
NumTargets == 8

\* ------------------------------------------------------------ str methods
\* s[i:] of Python, 1-based: the text from position i on.
From(s, i) == SubSeq(s, i, Len(s))

\* TRUE iff sep occurs in s at position i.
OccursAt(s, sep, i) == /\ i >= 1
                       /\ i + Len(sep) - 1 <= Len(s)
                       /\ SubSeq(s, i, i + Len(sep) - 1) = sep

\* str.find: the first position at which sep occurs in s, 0 if there is none.
Find(s, sep) ==
    LET hits == {i \in 1..Len(s) : OccursAt(s, sep, i)}
    IN  IF hits = {} THEN 0 ELSE CHOOSE i \in hits : \A j \in hits : i <= j

\* str.split(sep): the pieces between the non-overlapping occurrences of sep,
\* found left to right; always at least one piece.
RECURSIVE Split(_, _)
Split(s, sep) ==
    LET i == Find(s, sep)
    IN  IF i = 0 THEN <<s>>
        ELSE <<SubSeq(s, 1, i - 1)>> \o Split(From(s, i + Len(sep)), sep)

\* "/".join(segs)
RECURSIVE Join(_)
Join(segs) ==
    IF Len(segs) = 0 THEN <<>>
    ELSE IF Len(segs) = 1 THEN segs[1]
    ELSE segs[1] \o Slash \o Join(Tail(segs))

\* ------------------------------------------------------ parse_ae_ren_data
\* The simulation string mapping.
simulation_dict ==
    (<<"ec-earth3">> :> <<"EC-Earth3">>) @@
    (<<"mpi-esm1-2-hr">> :> <<"MPI-ESM1-2-HR">>) @@
    (<<"miroc6">> :> <<"MIROC6">>) @@
    (<<"taiesm1">> :> <<"TaiESM1">>) @@
    (<<"era5">> :> <<"ERA5">>)

\* An exception that leaves the function: not a dict, the caller gets nothing.
Raise(e) == [raised |-> e]

\* The dict of the except branch.  traceback.format_exc() is modelled by the
\* name of the exception it describes.
InvalidAssetDict(filepath, e) ==
    (INVALID_ASSET :> filepath) @@ (TRACEBACK :> <<e>>)

\* The tuple assignment of the try block: split on the root, take piece [1],
\* split it on "/", unpack into eight names.  IndexError when there is no
\* piece [1], ValueError when the number of segments is not eight.
Unpack(filepath) ==
    LET parts == Split(filepath, Root)
    IN  IF Len(parts) < 2 THEN [exc |-> "IndexError"]
        ELSE LET segs == Split(parts[2], Slash)
             IN  IF Len(segs) # NumTargets THEN [exc |-> "ValueError"]
                 ELSE [segs |-> segs]

\* The dict with installation taken from the first unpacked name, the
\* institution segment, instead of the second.
InfoSwapped(segs, stripped) ==
    [installation   |-> segs[1],
     activity_id    |-> <<"WRF">>,
     institution_id |-> <<"ERA">>,
     source_id      |-> simulation_dict[segs[3]],
     experiment_id  |-> segs[4],
     table_id       |-> segs[5],
     variable_id    |-> segs[6],
     grid_label     |-> segs[7],
     path           |-> stripped]

\* The dict with path put together again from the root and the unpacked
\* names, instead of taken from the rebound filepath.
InfoPathRebuilt(segs, stripped) ==
    [installation   |-> segs[2],
     activity_id    |-> <<"WRF">>,
     institution_id |-> <<"ERA">>,
     source_id      |-> simulation_dict[segs[3]],
     experiment_id  |-> segs[4],
     table_id       |-> segs[5],
     variable_id    |-> segs[6],
     grid_label     |-> segs[7],
     path           |-> Root \o Join(SubSeq(segs, 1, 7)) \o Slash]

\* The dict with institution_id taken from the first unpacked name instead
\* of the constant.
InfoInstitutionFromPath(segs, stripped) ==
    [installation   |-> segs[2],
     activity_id    |-> <<"WRF">>,
     institution_id |-> segs[1],
     source_id      |-> simulation_dict[segs[3]],
     experiment_id  |-> segs[4],
     table_id       |-> segs[5],
     variable_id    |-> segs[6],
     grid_label     |-> segs[7],
     path           |-> stripped]

\* The dict built after the try block.  segs are the eight unpacked names,
\* stripped is filepath after its rebinding in the try block.
Info(segs, stripped) ==
    [installation   |-> segs[2],
     activity_id    |-> <<"WRF">>,
     institution_id |-> <<"ERA">>,
     source_id      |-> simulation_dict[segs[3]],
     experiment_id  |-> segs[4],
     table_id       |-> segs[5],
     variable_id    |-> segs[6],
     grid_label     |-> segs[7],
     path           |-> stripped]

\* The function with the rebinding of filepath moved in front of the tuple
\* assignment, so that the except branch sees the stripped text.
parse_strip_first(filepath) ==
    LET stripped == Split(filepath, ZMetadata)[1]
        u        == Unpack(filepath)
    IN  IF "exc" \in DOMAIN u THEN InvalidAssetDict(stripped, u.exc)
        ELSE IF u.segs[3] \notin DOMAIN simulation_dict THEN Raise("KeyError")
        ELSE Info(u.segs, stripped)

\* The whole function.  The try block covers the tuple assignment and the
\* rebinding of filepath only; the lookup simulation_dict[source_id] is made
\* after it, so its KeyError leaves the function.
parse_ae_ren_data(filepath) ==
    LET u == Unpack(filepath)
    IN  IF "exc" \in DOMAIN u THEN InvalidAssetDict(filepath, u.exc)
        ELSE LET stripped == Split(filepath, ZMetadata)[1]
             IN  IF u.segs[3] \notin DOMAIN simulation_dict
                 THEN Raise("KeyError")
                 ELSE Info(u.segs, stripped)

\* ------------------------------------------------------------ the inputs
\* "s3://wfclimres/era/pv_distributed/ec-earth3/historical/1hr/cf/d03/.zmetadata",
\* segment by segment: a path as the crawl of the bucket finds it.
BaseSegs == << <<"era">>, <<"pv_distributed">>, <<"ec-earth3">>,
               <<"historical">>, <<"1hr">>, <<"cf">>, <<"d03">>, ZMetadata >>

\* Installation segments: a name, and the empty text between two "/".
InstallationSegs == { <<"pv_distributed">>, <<>> }
\* Simulation segments: a key of the mapping, a canonical name, an unknown one.
SimulationSegs == { <<"ec-earth3">>, <<"EC-Earth3">>, <<"unknown-model-x">> }
\* Variable segments: a name, and a name that contains the text ".zmetadata".
VariableSegs == { <<"cf">>, <<"cf", ".zmetadata">> }
\* Last segments: the metadata file, and nothing (a pre-stripped store path).
FileSegs == { ZMetadata, <<>> }

\* Root, then eight segments.
EightSegmentPaths ==
    { Root \o Join([BaseSegs EXCEPT ![2] = i, ![3] = s, ![6] = v, ![8] = f]) :
        i \in InstallationSegs, s \in SimulationSegs,
        v \in VariableSegs, f \in FileSegs }

\* n segments, the last being the metadata file.
SegsOfCount(n) ==
    IF n <= NumTargets THEN SubSeq(BaseSegs, 1, n - 1) \o <<ZMetadata>>
    ELSE SubSeq(BaseSegs, 1, NumTargets - 1)
            \o [k \in 1..(n - NumTargets) |-> <<"x">>] \o <<ZMetadata>>

\* Root, then 1..MaxSegs segments.
CountedPaths == { Root \o Join(SegsOfCount(n)) : n \in 1..MaxSegs }

\* The example of the docstring:
\* "s3://wfclimres/ERA/WRF/EC-Earth3/experiment/precipitation/variable/zarr/file.zmetadata"
DocExample ==
    Root \o Join(<< <<"ERA">>, <<"WRF">>, <<"EC-Earth3">>, <<"experiment">>,
                    <<"precipitation">>, <<"variable">>, <<"zarr">>,
                    <<"file", ".zmetadata">> >>)

\* The empty string; no root; another bucket; text before the root; the root
\* a second time after seven segments.
OddPaths ==
    { <<>>,
      Join(BaseSegs),
      <<"s3:", "/", "/", "other-bucket", "/">> \o Join(BaseSegs),
      <<"x">> \o Root \o Join(BaseSegs),
      Root \o Join(SubSeq(BaseSegs, 1, 7)) \o Slash \o Root \o <<"x">> }

\* The crawled path under another spelling of the institution segment.
InstitutionPaths == { Root \o Join([BaseSegs EXCEPT ![1] = <<"ERA">>]) }

Paths == EightSegmentPaths \cup CountedPaths \cup OddPaths \cup {DocExample}
            \cup InstitutionPaths

\* The subsets of S with at most n elements.
RECURSIVE SubsetsUpTo(_, _)
SubsetsUpTo(S, n) ==
    IF n = 0 THEN {{}}
    ELSE LET prev == SubsetsUpTo(S, n - 1)
         IN  prev \cup { T \cup {x} : T \in prev, x \in S }

\* --------------------------------------------------- Method 1's path list
installations == { <<"pv_distributed">>, <<"pv_utility">>,
                   <<"windpower_offshore">>, <<"windpower_onshore">> }
source_ids == { <<"ec-earth3">>, <<"miroc6">>, <<"mpi-esm1-2-hr">>,
                <<"taiesm1">>, <<"era5">> }

\* str.startswith: s begins with pre.
StartsWith(s, pre) == OccursAt(s, pre, 1)

\* fs.glob(f"s3://wfclimres/era/{installation}/{source_id}/**/*.zmetadata")
\* over the objects: those under the directory of an installation and a
\* source whose file name ends in ".zmetadata", returned without the protocol.
GlobS3(objects) ==
    { From(p, Len(Protocol) + 1) :
        p \in { q \in objects :
                  /\ \E i \in installations, s \in source_ids :
                        LET dir == Root \o <<"era", "/">> \o i \o Slash \o s \o Slash
                        IN  StartsWith(q, dir) /\ Len(q) > Len(dir)
                  /\ q[Len(q)] = ".zmetadata" } }

\* "s3://" + file.split(".zmetadata")[0]
ZarrPath(file) == Protocol \o Split(file, ZMetadata)[1]

\* filepaths: the list Method 1 feeds its Builder.
Filepaths(objects) == { ZarrPath(f) : f \in GlobS3(objects) }

\* ------------------------------------------------------------- the state
VARIABLES
    discovered,  \* the paths found in the bucket: what the crawl hands the parser
    assets,      \* assets[b]: the paths Builder b parses
    pending,     \* pending[b]: the assets of b not parsed yet
    outcome,     \* outcome[b][a]: what the call parse_ae_ren_data(a) of b gave
    df,          \* df[b]: the table of Builder b, a bag of rows
    exported,    \* what b2.save wrote: the catalog's columns and its rows
    pc,          \* the cell of the notebook that runs
    inv,         \* inv[i]: the frame of the i-th concurrent invocation
    collected    \* the records the concurrent invocations have returned, a bag

buildVars == <<discovered, assets, pending, outcome, df, exported, pc>>
concVars == <<inv, collected>>
vars == <<discovered, assets, pending, outcome, df, exported, pc, inv, collected>>

Builders == {"b1", "b2"}

\* What a call of the parser hands back.
IsCatalogRecord(r) == "path" \in DOMAIN r
IsFailureRecord(r) == INVALID_ASSET \in DOMAIN r
IsRaise(r) == "raised" \in DOMAIN r

\* The function with no argument in its domain.
NoCalls == [a \in {} |-> {}]

\* Before b2.save: no catalog file is written.
NotExported == [columns |-> {}, rows |-> EmptyBag]

\* The arguments of b2.save that name columns.
path_column_name == "path"
variable_column_name == "variable_id"

\* groupby_attrs without the one column that is no CMIP attribute.
groupby_attrs_without_installation ==
    { "activity_id", "institution_id", "source_id", "experiment_id",
      "table_id", "grid_label" }

groupby_attrs ==
    { "installation", "activity_id", "institution_id", "source_id",
      "experiment_id", "table_id", "grid_label" }

\* The column set of the exported catalog: the columns to group by, the
\* variable column and the path column.
SaveColumns == groupby_attrs \cup {variable_column_name} \cup {path_column_name}

\* Method 1 is fed the pre-stripped paths (depth=0, no crawling); Method 2
\* parses the paths the crawl finds.  Any bounded set of paths stands for
\* what is found, so that the parser meets malformed paths too.
Init ==
    /\ discovered \in (SubsetsUpTo(Paths, MaxAssets) \ {{}})
    /\ assets = [b \in Builders |->
                    IF b = "b1" THEN Filepaths(discovered) ELSE discovered]
    /\ pending = assets
    /\ outcome = [b \in Builders |-> NoCalls]
    /\ df = [b \in Builders |-> EmptyBag]
    /\ exported = NotExported
    /\ pc = "b1.build"
    /\ inv = <<>>
    /\ collected = EmptyBag

\* pd.DataFrame(entries): one row per parsed asset.
DataFrame(entries) ==
    LET rows == { entries[a] : a \in DOMAIN entries }
    IN  [r \in rows |-> Cardinality({ a \in DOMAIN entries : entries[a] = r })]

\* One call of the parsing function made by b.build, on any asset not parsed
\* yet.  A dict is kept as the asset's entry; an exception ends the build and
\* the cell with it.
Parse(b, a) ==
    /\ pc = b \o ".build"
    /\ a \in pending[b]
    /\ LET r == parse_ae_ren_data(a)
       IN  /\ outcome' = [outcome EXCEPT ![b] = (a :> r) @@ @]
           /\ pending' = [pending EXCEPT ![b] = @ \ {a}]
           /\ pc' = IF IsRaise(r) THEN "raised" ELSE pc
    /\ UNCHANGED <<discovered, assets, df, exported>>
    /\ UNCHANGED concVars

\* The end of b.build: every asset is parsed, the entries become the table.
BuildDone(b) ==
    /\ pc = b \o ".build"
    /\ pending[b] = {}
    /\ df' = [df EXCEPT ![b] = DataFrame(outcome[b])]
    /\ pc' = b \o ".clean_dataframe"
    /\ UNCHANGED <<discovered, assets, pending, outcome, exported>>
    /\ UNCHANGED concVars

\* b.clean_dataframe(): exclude the invalid assets and remove duplicate rows.
CleanDataframe(b) ==
    /\ pc = b \o ".clean_dataframe"
    /\ df' = [df EXCEPT ![b] =
                SetToBag({ r \in BagToSet(@) : ~IsFailureRecord(r) })]
    /\ pc' = IF b = "b1" THEN "b2.build" ELSE "done"
    /\ UNCHANGED <<discovered, assets, pending, outcome, exported>>
    /\ UNCHANGED concVars

\* b2.save(...): the cleaned table of b2 is written under the configured
\* columns.
Save ==
    /\ pc = "done"
    /\ exported' = [columns |-> SaveColumns, rows |-> df["b2"]]
    /\ pc' = "saved"
    /\ UNCHANGED <<discovered, assets, pending, outcome, df>>
    /\ UNCHANGED concVars

ParseSome == \E b \in Builders : \E a \in assets[b] : Parse(b, a)
BuildDoneSome == \E b \in Builders : BuildDone(b)
CleanDataframeSome == \E b \in Builders : CleanDataframe(b)

Next == ParseSome \/ BuildDoneSome \/ CleanDataframeSome \/ Save

Spec == Init /\ [][Next]_vars

\* ------------------------------------------- concurrent invocations
\* The paths the concurrent invocations are given: a crawled path, one with
\* ".zmetadata" in its variable segment, an unknown simulation, five
\* segments, no root, a pre-stripped store path.
ConcPaths ==
    { Root \o Join(BaseSegs),
      Root \o Join([BaseSegs EXCEPT ![6] = <<"cf", ".zmetadata">>]),
      Root \o Join([BaseSegs EXCEPT ![3] = <<"unknown-model-x">>]),
      Root \o Join(SegsOfCount(5)),
      Join(BaseSegs),
      Root \o Join([BaseSegs EXCEPT ![8] = <<>>]) }

\* A frame before its function returns.
NoReturn == [unset |-> TRUE]

\* The frame of a call parse_ae_ren_data(arg): the parameter filepath bound
\* to the argument, the other names unbound, the first line of the try block
\* next.
Frame(arg) ==
    [arg |-> arg, line |-> "unpack", filepath |-> arg, segs |-> <<>>,
     exc |-> "", simulation_dict |-> <<>>, ret |-> NoReturn]

\* An assignment to a name as if the name were a global of the module: every
\* invocation sees the new value.
BindGlobal(frames, i, name, value) ==
    [j \in DOMAIN frames |-> [frames[j] EXCEPT ![name] = value]]

\* An assignment to a name inside the function: the name is a local of the
\* invocation's own frame.
BindLocal(frames, i, name, value) ==
    [frames EXCEPT ![i] = [@ EXCEPT ![name] = value]]

\* The frame's next line.
Goto(frames, i, line) == [frames EXCEPT ![i].line = line]

\* No build runs while the invocations do.
InitConc ==
    /\ discovered = {}
    /\ assets = [b \in Builders |-> {}]
    /\ pending = assets
    /\ outcome = [b \in Builders |-> NoCalls]
    /\ df = [b \in Builders |-> EmptyBag]
    /\ exported = NotExported
    /\ pc = "concurrent"
    /\ \E n \in 1..MaxCalls :
          inv \in { [i \in 1..n |-> Frame(args[i])] : args \in [1..n -> ConcPaths] }
    /\ collected = EmptyBag

\* The tuple assignment of the try block: the eight names are bound, or the
\* exception takes the invocation to the except branch.
UnpackStep(i) ==
    /\ inv[i].line = "unpack"
    /\ LET u == Unpack(inv[i].filepath)
       IN  inv' = IF "exc" \in DOMAIN u
                  THEN Goto(BindLocal(inv, i, "exc", u.exc), i, "except")
                  ELSE Goto(BindLocal(inv, i, "segs", u.segs), i, "strip")
    /\ UNCHANGED collected

\* filepath = filepath.split(".zmetadata")[0]
StripStep(i) ==
    /\ inv[i].line = "strip"
    /\ inv' = Goto(BindLocal(inv, i, "filepath",
                             Split(inv[i].filepath, ZMetadata)[1]), i, "dict")
    /\ UNCHANGED collected

\* The except branch: the dict with filepath as it is bound now is returned.
ExceptStep(i) ==
    /\ inv[i].line = "except"
    /\ LET r == InvalidAssetDict(inv[i].filepath, inv[i].exc)
       IN  /\ inv' = Goto(BindLocal(inv, i, "ret", r), i, "returned")
           /\ collected' = collected (+) SetToBag({r})

\* simulation_dict = {...}: the table is built anew by every invocation.
DictStep(i) ==
    /\ inv[i].line = "dict"
    /\ inv' = Goto(BindLocal(inv, i, "simulation_dict", simulation_dict), i, "info")
    /\ UNCHANGED collected

\* info = {...}; return info.  The lookup raises KeyError for a source_id
\* that is no key, and the invocation ends without a record.
InfoStep(i) ==
    /\ inv[i].line = "info"
    /\ LET f == inv[i]
       IN  IF f.segs[3] \notin DOMAIN f.simulation_dict
           THEN /\ inv' = Goto(BindLocal(inv, i, "ret", Raise("KeyError")), i, "returned")
                /\ UNCHANGED collected
           ELSE LET r == [installation   |-> f.segs[2],
                          activity_id    |-> <<"WRF">>,
                          institution_id |-> <<"ERA">>,
                          source_id      |-> f.simulation_dict[f.segs[3]],
                          experiment_id  |-> f.segs[4],
                          table_id       |-> f.segs[5],
                          variable_id    |-> f.segs[6],
                          grid_label     |-> f.segs[7],
                          path           |-> f.filepath]
                IN  /\ inv' = Goto(BindLocal(inv, i, "ret", r), i, "returned")
                    /\ collected' = collected (+) SetToBag({r})

\* Any invocation runs its next line.
Step(i) == UnpackStep(i) \/ StripStep(i) \/ ExceptStep(i) \/ DictStep(i) \/ InfoStep(i)

NextConc == /\ \E i \in DOMAIN inv : Step(i)
            /\ UNCHANGED buildVars

SpecConc == InitConc /\ [][NextConc]_vars

\* ------------------------------------------------- the words of the claims
\* Every call of the parser made so far, as <<input path, what it gave>>.
Calls == UNION { { <<a, outcome[b][a]>> : a \in DOMAIN outcome[b] } : b \in Builders }

\* The text t occurs somewhere in p.
Contains(p, t) == \E i \in 1..Len(p) : OccursAt(p, t, i)

\* The positions at which the root occurs in p.
RootPositions(p) == { i \in 1..Len(p) : OccursAt(p, Root, i) }

\* The remainder after the root: what follows the first occurrence of the
\* root.  Where the root occurs a second time the remainder ends there: it is
\* the piece whose segments the parser unpacks.
Remainder(p) ==
    LET first == CHOOSE i \in RootPositions(p) : \A j \in RootPositions(p) : i <= j
        start == first + Len(Root)
        later == { j \in RootPositions(p) : j >= start }
        stop  == IF later = {} THEN Len(p) + 1
                 ELSE CHOOSE j \in later : \A k \in later : j <= k
    IN  SubSeq(p, start, stop - 1)

\* The positions of the separators of t, and the number of its segments.
SlashPositions(t) == { i \in 1..Len(t) : t[i] = "/" }
SegmentCount(t) == Cardinality(SlashPositions(t)) + 1

\* The k-th "/"-separated segment of t, 1 <= k <= SegmentCount(t).
Segment(t, k) ==
    LET before(i) == Cardinality({ j \in SlashPositions(t) : j < i })
        slash(n)  == CHOOSE i \in SlashPositions(t) : before(i) = n - 1
        lo == IF k = 1 THEN 0 ELSE slash(k - 1)
        hi == IF k = SegmentCount(t) THEN Len(t) + 1 ELSE slash(k)
    IN  SubSeq(t, lo + 1, hi - 1)

\* The keys of the lookup table, as the claims list them.
LookupKeys == { <<"ec-earth3">>, <<"mpi-esm1-2-hr">>, <<"miroc6">>,
                <<"taiesm1">>, <<"era5">> }

\* A valid eight-segment structure after the root.
ValidStructure(p) == Contains(p, Root) /\ SegmentCount(Remainder(p)) = 8

\* A valid path: the root first, eight segments of which the last is the
\* metadata file, a simulation token of the lookup table.
ValidPath(p) ==
    /\ OccursAt(p, Root, 1)
    /\ LET t == SubSeq(p, Len(Root) + 1, Len(p))
       IN  /\ SegmentCount(t) = 8
           /\ Segment(t, 8) = ZMetadata
           /\ Segment(t, 3) \in LookupKeys

\* ------------------------------------------------------------------ claims
\* C1: a path with a valid eight-segment structure whose simulation segment
\* is not a key of the lookup table gives a Parse Failure Record, no error.
C1_UnknownSimulationFails ==
    \A c \in Calls :
        (ValidStructure(c[1]) /\ Segment(Remainder(c[1]), 3) \notin LookupKeys)
            => IsFailureRecord(c[2])

\* C2: the parser is total: every call gives exactly one of a Catalog Record
\* and a Parse Failure Record, and no exception reaches the caller.
C2_ParserTotal ==
    \A c \in Calls :
        /\ ~IsRaise(c[2])
        /\ IsCatalogRecord(c[2]) # IsFailureRecord(c[2])

C4_PathStripsTerminalFile ==
    \A c \in Calls :
        ValidPath(c[1])
            => /\ IsCatalogRecord(c[2])
               /\ c[2].path = SubSeq(c[1], 1, Len(c[1]) - 1)

\* C5: a Catalog Record has installation = s2, source_id = the canonical
\* name of s3, experiment_id = s4, table_id = s5, variable_id = s6,
\* grid_label = s7, and the constants activity_id "WRF", institution_id "ERA".
C5_FieldsFromSegments ==
    \A c \in Calls :
        IsCatalogRecord(c[2])
            => LET t == Remainder(c[1])
                   r == c[2]
               IN  /\ r.installation = Segment(t, 2)
                   /\ Segment(t, 3) \in LookupKeys
                   /\ r.source_id = simulation_dict[Segment(t, 3)]
                   /\ (Segment(t, 3) = <<"ec-earth3">> => r.source_id = <<"EC-Earth3">>)
                   /\ r.experiment_id = Segment(t, 4)
                   /\ r.table_id = Segment(t, 5)
                   /\ r.variable_id = Segment(t, 6)
                   /\ r.grid_label = Segment(t, 7)
                   /\ r.activity_id = <<"WRF">>
                   /\ r.institution_id = <<"ERA">>

\* C5 happens: ".../era/pv_distributed/ec-earth3/historical/1hr/cf/d03/.zmetadata"
\* has been parsed to a Catalog Record with the canonical source name, and
\* its first segment is not the institution constant.
C5_Witness ==
    \E c \in Calls :
        /\ c[1] = Root \o Join(BaseSegs)
        /\ IsCatalogRecord(c[2])
        /\ c[2].source_id = <<"EC-Earth3">>
        /\ c[2].installation = <<"pv_distributed">>
        /\ Segment(Remainder(c[1]), 1) # c[2].institution_id

\* C6: every attribute of every Catalog Record is a non-empty string.
C6_AttributesNonEmpty ==
    \A c \in Calls :
        IsCatalogRecord(c[2]) => \A f \in DOMAIN c[2] : c[2][f] # <<>>

\* The dict of the docstring's example.
DocExampleRecord ==
    [installation   |-> <<"WRF">>,
     activity_id    |-> <<"WRF">>,
     institution_id |-> <<"ERA">>,
     source_id      |-> <<"EC-Earth3">>,
     experiment_id  |-> <<"experiment">>,
     table_id       |-> <<"precipitation">>,
     variable_id    |-> <<"variable">>,
     grid_label     |-> <<"zarr">>,
     path           |-> SubSeq(DocExample, 1, Len(DocExample) - 1)]

\* C7: the path of the docstring's example, whose simulation segment is the
\* canonical name "EC-Earth3", is parsed to the dict the docstring shows.
C7_DocExampleParses ==
    \A c \in Calls : c[1] = DocExample => c[2] = DocExampleRecord

\* The Catalog Record the claims expect of a path that can be parsed.
Parseable(p) == ValidStructure(p) /\ Segment(Remainder(p), 3) \in LookupKeys

\* C8: the parser never aborts a build: no call raises, and the cleaned table
\* of a build holds the Catalog Records of its parseable paths and no
\* failure row.
C8_BuildNeverAborted ==
    /\ pc # "raised"
    /\ pc = "done" =>
          /\ DOMAIN outcome["b2"] = discovered
          /\ BagToSet(df["b2"]) =
                { outcome["b2"][a] : a \in { p \in discovered : Parseable(p) } }
          /\ \A r \in BagToSet(df["b2"]) : IsCatalogRecord(r)

\* A zarr store as both methods find it: under the directory of a known
\* installation and source, ending in "/.zmetadata".
IsZarrStore(p) ==
    /\ GlobS3({p}) # {}
    /\ Len(p) >= 2 /\ p[Len(p) - 1] = "/" /\ p[Len(p)] = ".zmetadata"

\* C9: Method 1 and Method 2 give the same catalog: when the bucket holds
\* zarr stores only, the two cleaned tables are equal.
C9_MethodsAgree ==
    (pc = "done" /\ \A p \in discovered : IsZarrStore(p))
        => df["b1"] = df["b2"]

\* C11: the column set of the exported catalog is exactly the set of
\* attribute names of the Catalog Record: of every Catalog Record a call has
\* returned, and of every row that is exported.
C11_ExportColumnsMatchRecord ==
    /\ \A c \in Calls : IsCatalogRecord(c[2]) => DOMAIN c[2] = SaveColumns
    /\ pc = "saved" =>
          /\ exported.columns = SaveColumns
          /\ \A r \in BagToSet(exported.rows) : DOMAIN r = exported.columns

\* C11 happens: a catalog with at least one row has been exported.
C11_Witness ==
    /\ pc = "saved"
    /\ exported.rows # EmptyBag
    /\ \E r \in BagToSet(exported.rows) : DOMAIN r = exported.columns

\* The calls that returned a record, and the field of a record that names
\* its source: path of a Catalog Record, INVALID_ASSET of a failure.
Results == { c \in Calls : ~IsRaise(c[2]) }
Identity(r) == IF IsCatalogRecord(r) THEN r.path ELSE r[INVALID_ASSET]

\* The text of p before its first ".zmetadata"; all of p when it has none.
BeforeMetadata(p) ==
    LET zs == { i \in 1..Len(p) : p[i] = ".zmetadata" }
    IN  IF zs = {} THEN p
        ELSE SubSeq(p, 1, (CHOOSE i \in zs : \A j \in zs : i <= j) - 1)

\* C12 as stated: the results of any two distinct input paths differ in
\* their identity field.
C12_IdentityDistinct ==
    \A c \in Results, d \in Results :
        c[1] # d[1] => Identity(c[2]) # Identity(d[2])

\* C12, amended: the results of two input paths that differ before their
\* first ".zmetadata" differ in their identity field, and so do the Parse
\* Failure Records of any two distinct input paths.
C12_IdentityUpToMetadata ==
    \A c \in Results, d \in Results :
        Identity(c[2]) = Identity(d[2])
            => /\ BeforeMetadata(c[1]) = BeforeMetadata(d[1])
               /\ (IsFailureRecord(c[2]) /\ IsFailureRecord(d[2])) => c[1] = d[1]

\* C12 happens: a Catalog Record and a Parse Failure Record of two paths that
\* differ before their first ".zmetadata", and two failures of distinct
\* paths, have been returned with different identity fields.
C12_Witness ==
    /\ \E c \in Results, d \in Results :
          /\ IsCatalogRecord(c[2]) /\ IsFailureRecord(d[2])
          /\ BeforeMetadata(c[1]) # BeforeMetadata(d[1])
          /\ Identity(c[2]) # Identity(d[2])
    /\ \E c \in Results, d \in Results :
          /\ IsFailureRecord(c[2]) /\ IsFailureRecord(d[2])
          /\ c[1] # d[1]
          /\ Identity(c[2]) # Identity(d[2])

\* The calls that returned a Catalog Record.
CatalogCalls == { c \in Calls : IsCatalogRecord(c[2]) }

\* The attributes of a Catalog Record other than path.
Attributes(r) == [f \in (DOMAIN r) \ {"path"} |-> r[f]]

\* Segments lo..hi of the remainder of p.
Segments(p, lo, hi) == [k \in lo..hi |-> Segment(Remainder(p), k)]

\* C13 as stated: installation is the institution segment, the first after
\* the root, and that segment feeds no other attribute.
C13_InstallationFromInstitution ==
    /\ \A c \in CatalogCalls :
          c[2].installation = Segment(Remainder(c[1]), 1)
    /\ \A c \in CatalogCalls, d \in CatalogCalls :
          Segments(c[1], 2, 7) = Segments(d[1], 2, 7)
              => [Attributes(c[2]) EXCEPT !.installation = <<>>]
                    = [Attributes(d[2]) EXCEPT !.installation = <<>>]

\* C13, amended: installation is the installation segment, the second after
\* the root, and the institution segment, the first, feeds no attribute: two
\* paths that agree on segments 2..7 give the same attributes.
C13_InstallationFromItsSegment ==
    /\ \A c \in CatalogCalls :
          c[2].installation = Segment(Remainder(c[1]), 2)
    /\ \A c \in CatalogCalls, d \in CatalogCalls :
          Segments(c[1], 2, 7) = Segments(d[1], 2, 7)
              => Attributes(c[2]) = Attributes(d[2])

\* C13 happens: two paths that differ in the institution segment only have
\* been parsed to Catalog Records, with installation the second segment and
\* not the first.
C13_Witness ==
    \E c \in CatalogCalls, d \in CatalogCalls :
        /\ Segment(Remainder(c[1]), 1) # Segment(Remainder(d[1]), 1)
        /\ Segments(c[1], 2, 7) = Segments(d[1], 2, 7)
        /\ c[2].installation = Segment(Remainder(c[1]), 2)
        /\ c[2].installation # Segment(Remainder(c[1]), 1)
        /\ Attributes(c[2]) = Attributes(d[2])

\* C14: a Catalog Record is returned only if the input begins with the root:
\* an input in which the root is not at the start, or occurs more than once,
\* gives a Parse Failure Record.
C14_RecordOnlyWithRootFirst ==
    \A c \in Calls :
        /\ IsCatalogRecord(c[2]) => OccursAt(c[1], Root, 1)
        /\ (~OccursAt(c[1], Root, 1) \/ Cardinality(RootPositions(c[1])) > 1)
              => IsFailureRecord(c[2])

\* The bag of the records that the paths args[1..n] give one by one.
RECURSIVE RecordsOf(_)
RecordsOf(args) ==
    IF Len(args) = 0 THEN EmptyBag
    ELSE LET r == parse_ae_ren_data(args[1])
         IN  (IF IsRaise(r) THEN EmptyBag ELSE SetToBag({r}))
                (+) RecordsOf(Tail(args))

\* C15: under every interleaving, an invocation that has ended gave what the
\* function gives when it runs alone on the same path, every lookup table is
\* the table of the source, and when all invocations have ended the records
\* accumulated are those of the paths, whatever the order.
C15_InterleavingIndependent ==
    /\ \A i \in DOMAIN inv :
          /\ inv[i].line = "returned" => inv[i].ret = parse_ae_ren_data(inv[i].arg)
          /\ inv[i].line = "info" => inv[i].simulation_dict = simulation_dict
    /\ (\A i \in DOMAIN inv : inv[i].line = "returned")
          => collected = RecordsOf([i \in DOMAIN inv |-> inv[i].arg])

\* C15 happens: an invocation has returned a Parse Failure Record for a path
\* holding ".zmetadata" while another one, on another path, is past the
\* rebinding of its own filepath and has not returned.
C15_Witness ==
    \E i \in DOMAIN inv, j \in DOMAIN inv :
        /\ inv[i].line = "returned" /\ IsFailureRecord(inv[i].ret)
        /\ Contains(inv[i].arg, ZMetadata)
        /\ inv[i].ret = parse_ae_ren_data(inv[i].arg)
        /\ inv[j].line = "dict" /\ inv[j].filepath # inv[j].arg
        /\ inv[i].arg # inv[j].arg

=============================================================================
